---- MODULE Spec2Model ----
(***************************************************************************)
(* A model of src/src/tasks.py, the bulk_extractor worker task:            *)
(*   check_xml_attrib          the XML Field Accessor                       *)
(*   generate_summary_report   the Summary Report Builder                   *)
(*   extract_non_empty_files   the Artifact Collector                       *)
(*   command                   the Run Orchestrator                         *)
(* The three helpers are operators; command is a state machine whose       *)
(* actions are the statements of its loop body.                            *)
(***************************************************************************)
EXTENDS Integers, Sequences, FiniteSets

VARIABLES
    pc,            \* position in the function being executed
    input_files,   \* command: the list get_input_files returned (display names)
    idx,           \* command: 1-based position of the for loop
    output_files,  \* command / extract_non_empty_files: descriptors accumulated
    file_reports,  \* command: serialized File Reports accumulated
    report_file,   \* command: descriptor create_output_file returned for the report
    returncode,    \* command: process.returncode of the last subprocess
    report,        \* command: value generate_summary_report returned
    tmp_tree,      \* the file system under tmp_artifacts_dir / artifact_dir
    fs_tmp,        \* indices of the inputs whose temporary directory exists
    out_area,      \* the output area: backing path -> bytes written
    n_created,     \* number of create_output_file calls so far (fresh paths)
    running,       \* indices of the inputs whose subprocess is running
    runs,          \* history: one record per subprocess that has exited
    removed,       \* history: per input, the number of shutil.rmtree calls
    result,        \* how the function ended: envelope, exception or nothing yet
    xml_file,      \* check_xml_attrib: the parsed document
    xml_key,       \* check_xml_attrib: the path asked for
    xml_hit        \* check_xml_attrib: the value returned

vars == <<pc, input_files, idx, output_files, file_reports, report_file,
          returncode, report, tmp_tree, fs_tmp, out_area, n_created, running,
          runs, removed, result, xml_file, xml_key, xml_hit>>

(***************************************************************************)
(* Bounds of the model.                                                    *)
(***************************************************************************)
MaxInputs == 2
MaxRows == 3
MaxCount == 2
MaxNodes == 2
MaxEntries == 2
MaxBytes == 2

(***************************************************************************)
(* Python values.                                                          *)
(***************************************************************************)
\* Python's None, where a string is expected (Element.text of an empty element).
None == "<None>"

\* The sentinel of check_xml_attrib.
NA == "N/A"

\* The sentence generate_summary_report returns when report.xml is missing.
NoReportText == "Execution successful, but the report is not available."

\* str(n) for a natural number: its decimal digits, most significant first.
RECURSIVE Str(_)
Str(n) == IF n < 10 THEN <<n>> ELSE Str(n \div 10) \o <<n % 10>>

\* All sequences over S of length at most n.
SeqsUpTo(S, n) == UNION {[1..k -> S] : k \in 0..n}

\* zip(a, b): pairs up to the shorter length.
Zip(a, b) ==
    LET n == IF Len(a) < Len(b) THEN Len(a) ELSE Len(b)
    IN  [i \in 1..n |-> <<a[i], b[i]>>]

RECURSIVE Flatten(_)
Flatten(ss) == IF ss = <<>> THEN <<>> ELSE Head(ss) \o Flatten(Tail(ss))

(***************************************************************************)
(* XML documents.  A parsed document is a record                           *)
(*   nodes         the text-bearing nodes of the creator/report part, in   *)
(*                 document order, each [path, text]                       *)
(*   feature_files whether a feature_files element exists                  *)
(*   feature_file  the feature_file elements in document order, each with  *)
(*                 the texts of its name children and of its count children*)
(***************************************************************************)
Paths == {"creator/program", "creator/version", "report/elapsed_seconds"}
Texts == {"bulk_extractor", NA, None}
Names == {"email", "url", "ip"}

\* ElementTree.find(path): the first matching node in document order, or no node.
RECURSIVE find(_, _)
find(nodes, key) ==
    IF nodes = <<>> THEN <<>>
    ELSE IF Head(nodes).path = key THEN <<Head(nodes)>>
    ELSE find(Tail(nodes), key)

\* A slip that keeps the last match instead of the first.
RECURSIVE find_last(_, _)
find_last(nodes, key) ==
    IF nodes = <<>> THEN <<>>
    ELSE IF nodes[Len(nodes)].path = key THEN <<nodes[Len(nodes)]>>
    ELSE find_last(SubSeq(nodes, 1, Len(nodes) - 1), key)

check_xml_attrib_last(doc, key) ==
    LET xml_search == find_last(doc.nodes, key)
    IN  IF xml_search # <<>> THEN xml_search[1].text ELSE NA

\* check_xml_attrib(xml_file, xml_key)
check_xml_attrib(doc, key) ==
    LET xml_search == find(doc.nodes, key)
    IN  IF xml_search # <<>> THEN xml_search[1].text ELSE NA

\* str.format / f-string rendering of a text value: None is rendered "None".
Fmt(v) == IF v = None THEN "None" ELSE v

\* The document of a report.xml that could not be parsed or does not exist.
NoDoc == [nodes |-> <<>>, feature_files |-> FALSE, feature_file |-> <<>>]

\* xml_file.findall(".//feature_file/name"): the texts, in document order.
findall_name(doc) ==
    Flatten([i \in 1..Len(doc.feature_file) |-> doc.feature_file[i].name])

\* xml_file.findall(".//feature_file/count"): the texts, in document order.
findall_count(doc) ==
    Flatten([i \in 1..Len(doc.feature_file) |-> doc.feature_file[i].count])

\* scanner_results after the zip loop (lines 110-113): <<Name, Count>> rows.
scanner_results(doc) == Zip(findall_name(doc), findall_count(doc))

\* features_count after the zip loop (line 113).
RECURSIVE SumCounts(_)
SumCounts(rows) ==
    IF rows = <<>> THEN 0 ELSE Head(rows)[2] + SumCounts(Tail(rows))

\* Insert row r behind every row whose count is at least r's.
RECURSIVE InsertDesc(_, _)
InsertDesc(srt, r) ==
    IF srt = <<>> THEN <<r>>
    ELSE IF Head(srt)[2] >= r[2] THEN <<Head(srt)>> \o InsertDesc(Tail(srt), r)
    ELSE <<r>> \o srt

\* Insert row r in front of every row whose count is at most r's.
RECURSIVE InsertDescFront(_, _)
InsertDescFront(srt, r) ==
    IF srt = <<>> THEN <<r>>
    ELSE IF Head(srt)[2] > r[2] THEN <<Head(srt)>> \o InsertDescFront(Tail(srt), r)
    ELSE <<r>> \o srt

\* An ascending sort reversed: descending, but equal counts come out reversed.
RECURSIVE sorted_reverse_unstable(_)
sorted_reverse_unstable(rows) ==
    IF rows = <<>> THEN <<>>
    ELSE InsertDescFront(sorted_reverse_unstable(SubSeq(rows, 1, Len(rows) - 1)),
                         rows[Len(rows)])

\* sorted(scanner_results, key=Count, reverse=True): Python's sort is stable,
\* and reverse=True keeps the original order of rows with equal keys.
RECURSIVE sorted_reverse(_)
sorted_reverse(rows) ==
    IF rows = <<>> THEN <<>>
    ELSE InsertDesc(sorted_reverse(SubSeq(rows, 1, Len(rows) - 1)),
                    rows[Len(rows)])

\* The MarkdownTable of lines 116-120: one row of strings per sorted result.
table_rows(rows) ==
    LET srt == sorted_reverse(rows)
    IN  [i \in 1..Len(srt) |-> <<srt[i][1], Str(srt[i][2])>>]

\* The "Run Summary" section, lines 84-102.
run_summary(doc) ==
    [header  |-> "Run Summary",
     bullets |-> << <<"Program: ", Fmt(check_xml_attrib(doc, "creator/program")),
                      " - ", Fmt(check_xml_attrib(doc, "creator/version"))>>,
                    <<"Command Line: ",
                      Fmt(check_xml_attrib(doc, "creator/execution_environment/command_line"))>>,
                    <<"Start Time: ",
                      Fmt(check_xml_attrib(doc, "creator/execution_environment/start_time"))>>,
                    <<"Elapsed Time: ",
                      Fmt(check_xml_attrib(doc, "report/elapsed_seconds"))>> >>,
     columns |-> <<>>,
     table   |-> <<>>]

\* What a call can hand back: a tuple, a Report object or an exception.
Returned(kind, exc, tuple, sections, summary) ==
    [kind |-> kind, exc |-> exc, tuple |-> tuple, title |-> "Bulk Extractor Results",
     sections |-> sections, summary |-> summary]

NoValue == Returned("none", "", <<>>, <<>>, <<>>)

\* generate_summary_report(output_dir)
generate_summary_report(output_dir) ==
    LET xml  == output_dir.report_xml
        doc  == xml.doc
        rows == scanner_results(doc)
    IN  \* line 72: report.xml does not exist: a tuple of two strings
        IF xml.state = "absent"
        THEN Returned("tuple", "", <<NoReportText, NoReportText>>, <<>>, <<>>)
        \* line 77: xml_tree.parse raises on a file that is not XML
        ELSE IF xml.state = "malformed"
        THEN Returned("raise", "ParseError", <<>>, <<>>, <<>>)
        \* line 116: scanner_results[0] of an empty list; IndexError is not
        \* an AttributeError, and that one is re-raised as well
        ELSE IF doc.feature_files /\ rows = <<>>
        THEN Returned("raise", "IndexError", <<>>, <<>>, <<>>)
        ELSE Returned("Report", "", <<>>,
                 <<run_summary(doc),
                   IF doc.feature_files
                   THEN [header |-> "Scanner Results\n", bullets |-> <<>>,
                         columns |-> <<"Name", "Count">>, table |-> table_rows(rows)]
                   ELSE [header |-> "There are no findings to report.",
                         bullets |-> <<>>, columns |-> <<>>, table |-> <<>>]>>,
                 <<Str(SumCounts(rows)), " artifacts have been extracted.">>)

(***************************************************************************)
(* The directory tree of one Extraction Run.  A tree is a record           *)
(*   report_xml  [state, doc]: report.xml is absent, is not XML, or parsed *)
(*   entries     every other entry below the root, in the order os.scandir *)
(*               lists them: [dir, name, kind, content], dir being the     *)
(*               directory below the root that holds the entry             *)
(***************************************************************************)
Bytes == {0, 1}
Dirs == {"", "sub", ".cache"}
FileNames == {"email.txt", ".hist"}
Kinds == {"file", "dir", "dangling"}

\* glob's _ishidden: the path component starts with a dot.
ishidden(component) == component \in {".cache", ".hist"}

\* The bytes of report.xml: only their being non-empty matters to the walk.
XmlBytes == <<1>>

\* Every entry below the root, report.xml included.
Listing(tree) ==
    (IF tree.report_xml.state = "absent" THEN <<>>
     ELSE <<[dir |-> "", name |-> "report.xml", kind |-> "file",
             content |-> XmlBytes]>>)
    \o tree.entries

\* glob.glob(artifact_dir + "/**", recursive=True): include_hidden is False,
\* so a dot-file is not listed and a dot-directory is not descended into.
glob(tree) ==
    SelectSeq(Listing(tree), LAMBDA e : ~ishidden(e.name) /\ ~ishidden(e.dir))

\* os.path.exists(entry) and not os.path.isdir(entry)
IsReadable(e) == e.kind = "file"

\* os.path.basename(entry)
basename(e) == e.name

\* create_output_file(output_path, display_name): a descriptor with a path
\* no earlier descriptor has; n is the number of descriptors created before.
create_output_file(display_name, n) == [display_name |-> display_name, path |-> n + 1]

\* The loop of lines 139-147 over the listed entries: the descriptors
\* appended and the bytes written, n descriptors having been created before.
RECURSIVE walk(_, _)
walk(listed, n) ==
    IF listed = <<>> THEN [out_files |-> <<>>, written |-> <<>>]
    ELSE LET e == Head(listed)
         IN  IF IsReadable(e) /\ e.content # <<>>
             THEN LET out_file == create_output_file(<<basename(e)>>, n)
                      rest == walk(Tail(listed), n + 1)
                  IN  [out_files |-> <<out_file>> \o rest.out_files,
                       written |-> <<[path |-> out_file.path, content |-> e.content]>>
                                   \o rest.written]
             ELSE walk(Tail(listed), n)

\* os.makedirs(out_dir, exist_ok=True), lines 136-137: the tree afterwards.
makedirs_output(tree) ==
    LET out_dir == [dir |-> "", name |-> "output", kind |-> "dir", content |-> <<>>]
    IN  IF \E i \in 1..Len(tree.entries) : tree.entries[i] = out_dir
        THEN tree
        ELSE [tree EXCEPT !.entries = @ \o <<out_dir>>]

\* extract_non_empty_files(artifact_dir, output_path)
extract_non_empty_files(tree, n) == walk(glob(makedirs_output(tree)), n)

\* Report.to_markdown(): the title and the sections, rendered.
to_markdown(r) == <<r.title, r.sections>>

\* serialize_file_report(input_file, report_file, report)
serialize_file_report(input_file, rfile, r) ==
    [input_file |-> input_file, report_file |-> rfile, summary |-> r.summary]

(***************************************************************************)
(* What one bulk_extractor subprocess can leave behind.                    *)
(***************************************************************************)
Absent == [state |-> "absent", doc |-> NoDoc]
Malformed == [state |-> "malformed", doc |-> NoDoc]
Parsed(doc) == [state |-> "parsed", doc |-> doc]

NoTree == [report_xml |-> Absent, entries |-> <<>>]

File(dir, name, content) ==
    [dir |-> dir, name |-> name, kind |-> "file", content |-> content]

FeatureFile(name, count) == [name |-> <<name>>, count |-> <<count>>]

RunDocs ==
    { [nodes |-> <<[path |-> "creator/program", text |-> "bulk_extractor"]>>,
       feature_files |-> TRUE,
       feature_file |-> <<FeatureFile("email", 5), FeatureFile("url", 12),
                          FeatureFile("ip", 5)>>],
      [nodes |-> <<>>, feature_files |-> TRUE, feature_file |-> <<>>],
      [nodes |-> <<>>, feature_files |-> FALSE, feature_file |-> <<>>] }

RunEntries ==
    { <<>>,
      <<File("", "email.txt", <<0, 1>>), File("sub", "email.txt", <<>>)>>,
      <<File("", ".hist", <<1>>)>> }

RunTrees ==
    [report_xml : {Absent, Malformed} \cup {Parsed(d) : d \in RunDocs},
     entries : RunEntries]

DisplayNames == {"a.img", "b.img"}

NoResult == [kind |-> "none", exc |-> "", output_files |-> <<>>, file_reports |-> <<>>]
Raise(exc) == [kind |-> "raise", exc |-> exc, output_files |-> <<>>, file_reports |-> <<>>]

NoFile == [display_name |-> <<>>, path |-> 0]
Unset == "<unset>"

(***************************************************************************)
(* command: Init is the state after lines 170-172.                         *)
(***************************************************************************)
Init ==
    /\ input_files \in SeqsUpTo(DisplayNames, MaxInputs)
    /\ pc = "for"
    /\ idx = 1
    /\ output_files = <<>>
    /\ file_reports = <<>>
    /\ report_file = NoFile
    /\ returncode = 0
    /\ report = NoValue
    /\ tmp_tree = NoTree
    /\ fs_tmp = {}
    /\ out_area = <<>>
    /\ n_created = 0
    /\ running = {}
    /\ runs = <<>>
    /\ removed = [i \in 1..Len(input_files) |-> 0]
    /\ result = NoResult
    /\ xml_file = NoDoc
    /\ xml_key = Unset
    /\ xml_hit = Unset

xml_vars == <<xml_file, xml_key, xml_hit>>

\* Lines 174-186: the next input, its report descriptor, its temporary
\* directory name, and the subprocess started.
Popen ==
    /\ pc = "for"
    /\ idx <= Len(input_files)
    /\ report_file' = create_output_file(<<"Report_", input_files[idx], ".html">>, n_created)
    /\ n_created' = n_created + 1
    /\ running' = running \cup {idx}
    /\ pc' = "wait"
    /\ UNCHANGED <<input_files, idx, output_files, file_reports, returncode, report,
                   tmp_tree, fs_tmp, out_area, runs, removed, result, xml_vars>>

\* Line 187: process.wait() returns; bulk_extractor has exited with some
\* status, having created its output directory or not.
Wait ==
    /\ pc = "wait"
    /\ \E rc \in {0, 1}, made \in BOOLEAN, tree \in RunTrees :
          /\ ~made => tree = NoTree
          /\ returncode' = rc
          /\ fs_tmp' = IF made THEN fs_tmp \cup {idx} ELSE fs_tmp
          /\ tmp_tree' = tree
          /\ runs' = Append(runs, [returncode |-> rc, made |-> made, tree |-> tree,
                                   report_file |-> report_file])
    /\ running' = running \ {idx}
    /\ pc' = "check"
    /\ UNCHANGED <<input_files, idx, output_files, file_reports, report_file, report,
                   out_area, n_created, removed, result, xml_vars>>

\* A slip that skips a failed input instead of aborting.
FailNonZero_skip ==
    /\ pc = "check"
    /\ returncode # 0
    /\ pc' = "rmtree"
    /\ UNCHANGED <<input_files, idx, output_files, file_reports, report_file,
                   returncode, report, tmp_tree, fs_tmp, out_area, n_created, running,
                   runs, removed, result, xml_vars>>

\* Lines 188, 200-201: a non-zero exit status; the bare raise ends the task
\* with RuntimeError("No active exception to reraise").
FailNonZero ==
    /\ pc = "check"
    /\ returncode # 0
    /\ pc' = "raised"
    /\ result' = Raise("RuntimeError")
    /\ UNCHANGED <<input_files, idx, output_files, file_reports, report_file,
                   returncode, report, tmp_tree, fs_tmp, out_area, n_created, running,
                   runs, removed, xml_vars>>

\* A slip that goes on with an empty report when the directory is missing.
FailMissingDir_soft ==
    /\ pc = "check"
    /\ returncode = 0
    /\ idx \notin fs_tmp
    /\ output_files' = Append(output_files, report_file)
    /\ file_reports' = Append(file_reports,
                              serialize_file_report(input_files[idx], report_file, NoValue))
    /\ idx' = idx + 1
    /\ pc' = "for"
    /\ UNCHANGED <<input_files, report_file, returncode, report, tmp_tree, fs_tmp,
                   out_area, n_created, running, runs, removed, result, xml_vars>>

\* Lines 188-190, 197-199: status 0 but no temporary directory; the bare
\* raise ends the task.
FailMissingDir ==
    /\ pc = "check"
    /\ returncode = 0
    /\ idx \notin fs_tmp
    /\ pc' = "raised"
    /\ result' = Raise("RuntimeError")
    /\ UNCHANGED <<input_files, idx, output_files, file_reports, report_file,
                   returncode, report, tmp_tree, fs_tmp, out_area, n_created, running,
                   runs, removed, xml_vars>>

\* Lines 188-191: status 0 and the directory exists; generate_summary_report
\* returns a value or its exception ends the task.
BuildReport ==
    /\ pc = "check"
    /\ returncode = 0
    /\ idx \in fs_tmp
    /\ report' = generate_summary_report(tmp_tree)
    /\ IF report'.kind = "raise"
       THEN pc' = "raised" /\ result' = Raise(report'.exc)
       ELSE pc' = "write" /\ result' = result
    /\ UNCHANGED <<input_files, idx, output_files, file_reports, report_file,
                   returncode, tmp_tree, fs_tmp, out_area, n_created, running, runs,
                   removed, xml_vars>>

\* Lines 192-193: open(report_file.path, "w") creates the file, then
\* report.to_markdown() is evaluated; a tuple has no such attribute.
WriteReport ==
    /\ pc = "write"
    /\ IF report.kind = "tuple"
       THEN /\ out_area' = Append(out_area, [path |-> report_file.path, content |-> <<>>])
            /\ pc' = "raised"
            /\ result' = Raise("AttributeError")
       ELSE /\ out_area' = Append(out_area, [path |-> report_file.path,
                                             content |-> to_markdown(report)])
            /\ pc' = "collect"
            /\ result' = result
    /\ UNCHANGED <<input_files, idx, output_files, file_reports, report_file,
                   returncode, report, tmp_tree, fs_tmp, n_created, running, runs,
                   removed, xml_vars>>

\* A slip that appends the artifacts in front of the report descriptor.
Collect_artifacts_first ==
    /\ pc = "collect"
    /\ LET ex == extract_non_empty_files(tmp_tree, n_created)
       IN  /\ output_files' = output_files \o ex.out_files \o <<report_file>>
           /\ out_area' = out_area \o ex.written
           /\ n_created' = n_created + Len(ex.out_files)
    /\ tmp_tree' = makedirs_output(tmp_tree)
    /\ file_reports' = Append(file_reports,
                              serialize_file_report(input_files[idx], report_file, report))
    /\ pc' = "rmtree"
    /\ UNCHANGED <<input_files, idx, report_file, returncode, report, fs_tmp, running,
                   runs, removed, result, xml_vars>>

\* Lines 194-196: the report descriptor, then the artifacts of the
\* directory, then the File Report.
Collect ==
    /\ pc = "collect"
    /\ LET ex == extract_non_empty_files(tmp_tree, n_created)
       IN  /\ output_files' = output_files \o <<report_file>> \o ex.out_files
           /\ out_area' = out_area \o ex.written
           /\ n_created' = n_created + Len(ex.out_files)
    /\ tmp_tree' = makedirs_output(tmp_tree)
    /\ file_reports' = Append(file_reports,
                              serialize_file_report(input_files[idx], report_file, report))
    /\ pc' = "rmtree"
    /\ UNCHANGED <<input_files, idx, report_file, returncode, report, fs_tmp, running,
                   runs, removed, result, xml_vars>>

\* A slip that goes to the next input and leaves the directory behind.
Rmtree_skipped ==
    /\ pc = "rmtree"
    /\ idx' = idx + 1
    /\ pc' = "for"
    /\ UNCHANGED <<input_files, output_files, file_reports, report_file, returncode,
                   report, tmp_tree, fs_tmp, out_area, n_created, running, runs, removed,
                   result, xml_vars>>

\* Line 203: shutil.rmtree(tmp_artifacts_dir), and the loop goes on.
Rmtree ==
    /\ pc = "rmtree"
    /\ fs_tmp' = fs_tmp \ {idx}
    /\ tmp_tree' = NoTree
    /\ removed' = [removed EXCEPT ![idx] = @ + 1]
    /\ idx' = idx + 1
    /\ pc' = "for"
    /\ UNCHANGED <<input_files, output_files, file_reports, report_file, returncode,
                   report, out_area, n_created, running, runs, result, xml_vars>>

\* Lines 205-206: the loop is over and nothing was accumulated.
NoFilesReturned ==
    /\ pc = "for"
    /\ idx > Len(input_files)
    /\ output_files = <<>>
    /\ pc' = "raised"
    /\ result' = Raise("no files returned")
    /\ UNCHANGED <<input_files, idx, output_files, file_reports, report_file,
                   returncode, report, tmp_tree, fs_tmp, out_area, n_created, running,
                   runs, removed, xml_vars>>

\* Lines 208-214: create_task_result with the accumulated lists.
Return ==
    /\ pc = "for"
    /\ idx > Len(input_files)
    /\ output_files # <<>>
    /\ pc' = "returned"
    /\ result' = [kind |-> "envelope", exc |-> "", output_files |-> output_files,
                  file_reports |-> file_reports]
    /\ UNCHANGED <<input_files, idx, output_files, file_reports, report_file,
                   returncode, report, tmp_tree, fs_tmp, out_area, n_created, running,
                   runs, removed, xml_vars>>

Next ==
    \/ Popen
    \/ Wait
    \/ FailNonZero
    \/ FailMissingDir
    \/ BuildReport
    \/ WriteReport
    \/ Collect
    \/ Rmtree
    \/ NoFilesReturned
    \/ Return

Spec == Init /\ [][Next]_vars

(***************************************************************************)
(* check_xml_attrib called on its own: any small document, any path.       *)
(***************************************************************************)
XmlNodes == [path : Paths, text : Texts]

command_idle ==
    /\ input_files = <<>>
    /\ idx = 1
    /\ file_reports = <<>>
    /\ report_file = NoFile
    /\ returncode = 0
    /\ fs_tmp = {}
    /\ running = {}
    /\ runs = <<>>
    /\ removed = <<>>
    /\ result = NoResult

command_vars == <<input_files, idx, file_reports, report_file, returncode, fs_tmp,
                  running, runs, removed, result>>

InitXml ==
    /\ command_idle
    /\ pc = "call"
    /\ output_files = <<>>
    /\ out_area = <<>>
    /\ n_created = 0
    /\ report = NoValue
    /\ tmp_tree = NoTree
    /\ xml_file \in [nodes : SeqsUpTo(XmlNodes, MaxNodes), feature_files : {FALSE},
                     feature_file : {<<>>}]
    /\ xml_key \in Paths
    /\ xml_hit = Unset

call_check_xml_attrib ==
    /\ pc = "call"
    /\ xml_hit' = check_xml_attrib(xml_file, xml_key)
    /\ pc' = "ret"
    /\ UNCHANGED <<command_vars, output_files, out_area, n_created, report, tmp_tree,
                   xml_file, xml_key>>

NextXml == call_check_xml_attrib

SpecXml == InitXml /\ [][NextXml]_vars

(***************************************************************************)
(* generate_summary_report called on its own: report.xml absent, not XML,  *)
(* or any small document.                                                  *)
(***************************************************************************)
Optional(S) == {<<>>} \cup {<<x>> : x \in S}

FeatureFiles == [name : Optional(Names), count : Optional(0..MaxCount)]

ReportDocs ==
    [nodes : {<<>>, <<[path |-> "creator/program", text |-> "bulk_extractor"]>>},
     feature_files : BOOLEAN,
     feature_file : SeqsUpTo(FeatureFiles, MaxRows)]

InitReport ==
    /\ command_idle
    /\ pc = "call"
    /\ output_files = <<>>
    /\ out_area = <<>>
    /\ n_created = 0
    /\ report = NoValue
    /\ tmp_tree \in [report_xml : {Absent, Malformed} \cup {Parsed(d) : d \in ReportDocs},
                     entries : {<<>>}]
    /\ xml_file = NoDoc
    /\ xml_key = Unset
    /\ xml_hit = Unset

call_generate_summary_report ==
    /\ pc = "call"
    /\ report' = generate_summary_report(tmp_tree)
    /\ pc' = "ret"
    /\ UNCHANGED <<command_vars, output_files, out_area, n_created, tmp_tree, xml_vars>>

NextReport == call_generate_summary_report

SpecReport == InitReport /\ [][NextReport]_vars

(***************************************************************************)
(* extract_non_empty_files called on its own: any small tree whose entries *)
(* have distinct paths.                                                    *)
(***************************************************************************)
Contents == SeqsUpTo(Bytes, MaxBytes)

Entries ==
    {e \in [dir : Dirs, name : FileNames, kind : Kinds, content : Contents] :
        e.kind # "file" => e.content = <<>>}

DistinctPaths(es) ==
    \A i, j \in 1..Len(es) :
        (es[i].dir = es[j].dir /\ es[i].name = es[j].name) => i = j

InitCollect ==
    /\ command_idle
    /\ pc = "call"
    /\ output_files = <<>>
    /\ out_area = <<>>
    /\ n_created \in {0, 1}
    /\ report = NoValue
    /\ tmp_tree \in {t \in [report_xml : {Absent, Malformed},
                            entries : SeqsUpTo(Entries, MaxEntries)] :
                        DistinctPaths(t.entries)}
    /\ xml_file = NoDoc
    /\ xml_key = Unset
    /\ xml_hit = Unset

call_extract_non_empty_files ==
    /\ pc = "call"
    /\ LET ex == extract_non_empty_files(tmp_tree, n_created)
       IN  /\ output_files' = ex.out_files
           /\ out_area' = ex.written
           /\ n_created' = n_created + Len(ex.out_files)
    /\ tmp_tree' = makedirs_output(tmp_tree)
    /\ pc' = "ret"
    /\ UNCHANGED <<command_vars, report, xml_vars>>

NextCollect == call_extract_non_empty_files

SpecCollect == InitCollect /\ [][NextCollect]_vars

(***************************************************************************)
(* Properties of command, checked under Spec.                              *)
(***************************************************************************)
Ended == pc \in {"raised", "returned"}

\* Whether descriptor d is among the accumulated output files.
InOutputFiles(d) == \E k \in 1..Len(output_files) : output_files[k] = d

\* Whether a File Report for report descriptor d has been accumulated.
InFileReports(d) == \E k \in 1..Len(file_reports) : file_reports[k].report_file = d

\* C1: when the subprocess of an input exits with a non-zero status the task
\* aborts: it is at the check or has raised, no envelope is returned even
\* though earlier inputs accumulated output, and no subprocess was or is
\* started for a later input.
C1_NonZeroExitAborts ==
    \A i \in 1..Len(runs) :
        runs[i].returncode # 0 =>
            /\ pc \in {"check", "raised"}
            /\ result.kind # "envelope"
            /\ idx = i
            /\ Len(runs) = i
            /\ running = {}

\* C1 witness: the second subprocess failed after the first input had
\* accumulated its report and artifacts, and the task has raised.
C1_Witness ==
    /\ pc = "raised"
    /\ Len(runs) = 2
    /\ runs[1].returncode = 0
    /\ runs[2].returncode # 0
    /\ Len(output_files) >= 2
    /\ Len(file_reports) = 1
    /\ result = Raise("RuntimeError")

\* C2: when the task has ended, no temporary directory of a processed input
\* exists, and every directory that was made was removed exactly once.
C2_TmpDirAlwaysRemoved ==
    Ended =>
        /\ fs_tmp = {}
        /\ \A i \in 1..Len(runs) : runs[i].made => removed[i] = 1

\* C3: a run that exited 0 and left a directory without report.xml gets the
\* placeholder as body and summary, and the task does not raise on it.
C3_MissingReportRecovered ==
    \A i \in 1..Len(runs) :
        (/\ runs[i].returncode = 0
         /\ runs[i].made
         /\ runs[i].tree.report_xml.state = "absent") =>
            /\ generate_summary_report(runs[i].tree).tuple
                   = <<NoReportText, NoReportText>>
            /\ ~(pc = "raised" /\ idx = i)

\* C5: when the subprocess exits 0 but no temporary directory exists the task
\* aborts: no envelope, the input's report descriptor and File Report are
\* never accumulated, and no later input is processed.
C5_MissingDirAborts ==
    \A i \in 1..Len(runs) :
        (runs[i].returncode = 0 /\ ~runs[i].made) =>
            /\ pc \in {"check", "raised"}
            /\ result.kind # "envelope"
            /\ ~InOutputFiles(runs[i].report_file)
            /\ ~InFileReports(runs[i].report_file)
            /\ Len(file_reports) = i - 1
            /\ idx = i
            /\ Len(runs) = i
            /\ running = {}

\* C5 witness: the second subprocess exited 0 without a directory after a
\* first input succeeded, and the task has raised.
C5_Witness ==
    /\ pc = "raised"
    /\ Len(runs) = 2
    /\ runs[2].returncode = 0
    /\ ~runs[2].made
    /\ Len(file_reports) = 1
    /\ result = Raise("RuntimeError")

\* The display names input i must contribute: its report's, then one per
\* listed, readable, non-empty entry of its directory.
ExpectedNames(i) ==
    LET listed == glob(runs[i].tree)
        kept == SelectSeq(listed, LAMBDA e : e.kind = "file" /\ Len(e.content) > 0)
    IN  <<<<"Report_", input_files[i], ".html">>>>
        \o [k \in 1..Len(kept) |-> <<kept[k].name>>]

\* C6: once the loop has run over every input, the task raises "no files
\* returned" exactly if the output-file list is empty; otherwise it returns
\* an envelope whose output files are, input by input in input order, the
\* report descriptor followed by the artifacts, on pairwise distinct paths,
\* and whose file reports are one per input in input order.
C6_FinalResult ==
    (Ended /\ idx > Len(input_files)) =>
        /\ (result = Raise("no files returned")) <=> (output_files = <<>>)
        /\ output_files # <<>> =>
              /\ result.kind = "envelope"
              /\ [k \in 1..Len(result.output_files) |-> result.output_files[k].display_name]
                     = Flatten([i \in 1..Len(input_files) |-> ExpectedNames(i)])
              /\ \A k, l \in 1..Len(result.output_files) :
                     result.output_files[k].path = result.output_files[l].path => k = l
              /\ Len(result.file_reports) = Len(input_files)
              /\ \A i \in 1..Len(input_files) :
                     /\ result.file_reports[i].input_file = input_files[i]
                     /\ result.file_reports[i].report_file = runs[i].report_file

\* C6 witness: two inputs, both with artifacts, and the envelope returned.
C6_Witness ==
    /\ pc = "returned"
    /\ Len(input_files) = 2
    /\ Len(result.output_files) > 3
    /\ Len(ExpectedNames(1)) > 1
    /\ Len(ExpectedNames(2)) > 1

\* C10: runs never overlap.  At most one subprocess runs and at most one
\* temporary directory exists, both belonging to the current input; every
\* earlier input has exited, has its report descriptor and File Report
\* accumulated and its directory removed; on normal return no directory exists.
C10_RunsNeverOverlap ==
    /\ Cardinality(running) <= 1
    /\ Cardinality(fs_tmp) <= 1
    /\ running \subseteq {idx}
    /\ fs_tmp \subseteq {idx}
    /\ \A i \in 1..Len(input_files) :
          i < idx =>
              /\ i <= Len(runs)
              /\ runs[i].returncode = 0
              /\ InOutputFiles(runs[i].report_file)
              /\ InFileReports(runs[i].report_file)
              /\ removed[i] = 1
              /\ i \notin fs_tmp
    /\ pc = "returned" => fs_tmp = {}

\* C10 witness: the second subprocess is running, the first input's run is
\* accumulated and its directory removed.
C10_Witness ==
    /\ running = {2}
    /\ removed[1] = 1
    /\ Len(file_reports) = 1
    /\ fs_tmp = {}

(***************************************************************************)
(* Properties of check_xml_attrib, checked under SpecXml.                  *)
(***************************************************************************)
Matches == {i \in 1..Len(xml_file.nodes) : xml_file.nodes[i].path = xml_key}

\* C9 as stated: the sentinel is returned if and only if no node matches,
\* and a match yields the text of the first matching node.
C9_SentinelIffNoMatch ==
    pc = "ret" =>
        /\ (xml_hit = NA) <=> (Matches = {})
        /\ \A i \in Matches :
              (\A j \in Matches : i <= j) => xml_hit = xml_file.nodes[i].text

\* C9 amended: the sentinel is returned whenever no node matches, and a
\* match yields the text of the first matching node, whatever that text is
\* (None for an empty element, or the string "N/A" itself).
C9_SentinelIfNoMatchElseFirstText ==
    pc = "ret" =>
        /\ (Matches = {}) => (xml_hit = NA)
        /\ \A i \in Matches :
              (\A j \in Matches : i <= j) => xml_hit = xml_file.nodes[i].text

\* C9 witness: two nodes match, with different texts, and the first came back.
C9_Witness ==
    /\ pc = "ret"
    /\ Matches = {1, 2}
    /\ xml_file.nodes[1].text = "bulk_extractor"
    /\ xml_file.nodes[2].text = None
    /\ xml_hit = "bulk_extractor"

(***************************************************************************)
(* Properties of generate_summary_report, checked under SpecReport.        *)
(***************************************************************************)
\* The feature_file elements of the document given to the builder.
Elems == tmp_tree.report_xml.doc.feature_file

\* report.xml was parsed and every feature_file has one name and one count.
WellFormed ==
    /\ tmp_tree.report_xml.state = "parsed"
    /\ \A i \in 1..Len(Elems) : Len(Elems[i].name) = 1 /\ Len(Elems[i].count) = 1

\* The (name, count) pair of feature_file i of a well-formed document.
Pair(i) == <<Elems[i].name[1], Elems[i].count[1]>>

RECURSIVE SumPairs(_)
SumPairs(n) == IF n = 0 THEN 0 ELSE Pair(n)[2] + SumPairs(n - 1)

\* C7: for every well-formed report.xml the summary is the sum of the counts
\* followed by " artifacts have been extracted.", 0 when there are no rows,
\* with or without a feature_files element.
C7_SummaryIsSumOfCounts ==
    (pc = "ret" /\ WellFormed) =>
        /\ report.kind = "Report"
        /\ report.summary = <<Str(SumPairs(Len(Elems))), " artifacts have been extracted.">>

\* The place of pair i in a stable descending order: behind every pair with
\* a greater count and every earlier pair with the same count.
Rank(i) ==
    1 + Cardinality({j \in 1..Len(Elems) :
                        \/ Pair(j)[2] > Pair(i)[2]
                        \/ (Pair(j)[2] = Pair(i)[2] /\ j < i)})

\* C8: the rows of a rendered Scanner Results table are the input pairs in
\* descending order of count, pairs of equal count in their XML order.
C8_TableStableDescending ==
    (pc = "ret" /\ WellFormed /\ report.kind = "Report"
        /\ tmp_tree.report_xml.doc.feature_files) =>
        LET tbl == report.sections[2].table
        IN  /\ Len(tbl) = Len(Elems)
            /\ \A i \in 1..Len(Elems) :
                  tbl[Rank(i)] = <<Pair(i)[1], Str(Pair(i)[2])>>

\* C8 witness: [(email,1), (url,2), (ip,1)] rendered as [url:2, email:1, ip:1].
C8_Witness ==
    /\ pc = "ret"
    /\ WellFormed
    /\ Len(Elems) = 3
    /\ Pair(1) = <<"email", 1>> /\ Pair(2) = <<"url", 2>> /\ Pair(3) = <<"ip", 1>>
    /\ report.kind = "Report"
    /\ report.sections[2].table = << <<"url", <<2>> >>, <<"email", <<1>> >>, <<"ip", <<1>> >> >>

(***************************************************************************)
(* Properties of extract_non_empty_files, checked under SpecCollect.       *)
(***************************************************************************)
\* The non-directory entries below the root with base filename b.
NonDirs(b) ==
    {i \in 1..Len(Listing(tmp_tree)) :
        Listing(tmp_tree)[i].kind # "dir" /\ Listing(tmp_tree)[i].name = b}

\* The descriptors returned with display name b.
Descriptors(b) ==
    {k \in 1..Len(output_files) : output_files[k].display_name = <<b>>}

\* C4: a descriptor is returned for a non-directory entry if and only if its
\* content is non-empty, one descriptor each, and the bytes written to the
\* descriptor's backing file are the bytes of a source entry of that name.
C4_DescriptorIffNonEmpty ==
    pc = "ret" =>
        /\ \A b \in FileNames \cup {"report.xml"} :
              Cardinality(Descriptors(b))
                  = Cardinality({i \in NonDirs(b) : Len(Listing(tmp_tree)[i].content) > 0})
        /\ \A k \in 1..Len(output_files) :
              \E w \in 1..Len(out_area), i \in 1..Len(Listing(tmp_tree)) :
                  /\ out_area[w].path = output_files[k].path
                  /\ <<Listing(tmp_tree)[i].name>> = output_files[k].display_name
                  /\ out_area[w].content = Listing(tmp_tree)[i].content

====
